---- MODULE Spec2Model ----
(***************************************************************************)
(* Model of tutorials/transshipment_problem_oop.py: schedule(),            *)
(* find_perfect_circuit(), path_from_schedule(), jobs_from_path().         *)
(* One run of schedule(graph, start, jobs) is one behaviour; every         *)
(* top-level iteration of its while loop is one step.                      *)
(* The Graph class (shortest_path, distance_from_path,                     *)
(* breadth_first_search, membership) is imported from the package and is   *)
(* modelled from its documented contract.                                  *)
(***************************************************************************)
EXTENDS Integers, Sequences, FiniteSets, Bags, TLC

VARIABLES graph, start, jobs,          \* the arguments of schedule()
          jobs_to_plan, new_schedule,  \* its two lists
          outcome,                     \* "running", "returned", "NoPath"
          iters,                       \* completed iterations of the while loop
          branch,                      \* branch of the last completed iteration
          prev_pool,                   \* jobs_to_plan at the start of that iteration
          circuit_path,                \* what find_perfect_circuit returned in it
          chosen_perm,                 \* permutation whose path was kept (line 189)
          shortest_path_v,             \* local shortest_path of schedule()
          shortest_distance,           \* local shortest_distance of schedule()
          oracle_called                \* some method of graph has been called

vars == <<graph, start, jobs, jobs_to_plan, new_schedule, outcome, iters, branch,
          prev_pool, circuit_path, chosen_perm, shortest_path_v, shortest_distance,
          oracle_called>>

\* Longest input list of jobs drawn by Init (besides the docstring example).
MaxLegs == 3

\* float('inf')
Inf == 1000000

Locations == {"A", "B", "C"}

\* The example of the docstring of path_from_schedule (lines 206-207).
ExampleJobs == << <<"A", "B">>, <<"A", "C">>, <<"B", "A">>, <<"C", "A">> >>

Legs == Locations \X Locations

----------------------------------------------------------------------------
(* The networks the runs are started on.                                   *)

Edge(a, b, d) == [from |-> a, to |-> b, d |-> d]

\* {A,B,C} fully connected with unit edges (docstring of path_from_schedule).
UnitTriangle ==
    [nodes |-> {"A", "B", "C"},
     edges |-> {Edge(a, b, 1) : a, b \in {"A", "B", "C"}} \ {Edge(a, a, 1) : a \in {"A", "B", "C"}}]

\* Only A and B are locations of this network; B is a dead end.
OneWay == [nodes |-> {"A", "B"}, edges |-> {Edge("A", "B", 5)}]

\* A directed ring A -> B -> C -> A; the direct edge A -> C is longer than
\* the route over B.
Ring ==
    [nodes |-> {"A", "B", "C"},
     edges |-> {Edge("A", "B", 1), Edge("B", "C", 1), Edge("C", "A", 1),
                Edge("A", "C", 5)}]

Networks == {UnitTriangle, OneWay, Ring}

----------------------------------------------------------------------------
(* Sequence helpers.                                                       *)

Range(s) == {s[i] : i \in 1..Len(s)}

RemoveAt(s, i) == SubSeq(s, 1, i - 1) \o SubSeq(s, i + 1, Len(s))

\* list.index: position of the first occurrence (0 when absent)
IndexOf(s, x) ==
    IF x \in Range(s) THEN CHOOSE i \in 1..Len(s) : s[i] = x /\ \A k \in 1..(i - 1) : s[k] # x
    ELSE 0

\* Variant of Remove: drops every occurrence.
RemoveEvery(s, x) == SelectSeq(s, LAMBDA y : y # x)

\* list.remove: drops the first occurrence
Remove(s, x) == RemoveAt(s, IndexOf(s, x))

Last(s) == s[Len(s)]

BagOfSeq(s) == [x \in Range(s) |-> Cardinality({i \in 1..Len(s) : s[i] = x})]

SetMin(S) == CHOOSE x \in S : \A y \in S : x <= y

Plus(x, y) == IF x >= Inf \/ y >= Inf THEN Inf ELSE x + y

----------------------------------------------------------------------------
(* graph: the Graph instance passed to schedule().                         *)

\* One round of relaxation of the distances dist over the edges of net.
RelaxOnce(net, dist) ==
    [p \in Legs |->
        SetMin({dist[p]} \cup
               {Plus(dist[<<p[1], e.from>>], e.d) : e \in {x \in net.edges : x.to = p[2]}})]

RECURSIVE Relax(_, _, _)
Relax(net, dist, k) == IF k = 0 THEN dist ELSE Relax(net, RelaxOnce(net, dist), k - 1)

\* Cheapest route between every two locations of net (Inf: there is none).
Routes(net) ==
    Relax(net, [p \in Legs |-> IF p[1] = p[2] /\ p[1] \in net.nodes THEN 0 ELSE Inf],
          Cardinality(Locations) - 1)

\* A Graph instance: the network with the routes its searches find.
GraphOf(net) == [nodes |-> net.nodes, edges |-> net.edges, routes |-> Routes(net)]

\* location in network
Contains(net, n) == n \in net.nodes

\* graph.shortest_path(A, B): the distance, or the NoPath failure
shortest_path(net, A, B) ==
    [NoPath |-> net.routes[<<A, B>>] >= Inf, d |-> net.routes[<<A, B>>]]

\* graph.distance_from_path(path): the sum over the consecutive pairs of the
\* path, a pair without a direct edge costing its shortest route; the NoPath
\* failure when some pair has no route.
RECURSIVE distance_from(_, _, _)
distance_from(net, path, i) ==
    IF i >= Len(path) THEN 0
    ELSE Plus(net.routes[<<path[i], path[i + 1]>>], distance_from(net, path, i + 1))

distance_from_path(net, path) ==
    LET total == distance_from(net, path, 1)
    IN  [NoPath |-> total >= Inf, d |-> total]

\* Walks of exactly k hops from A to B over the edges of g (a set of pairs).
HopPaths(g, A, B, k) ==
    {p \in [1..(k + 1) -> Locations] :
        /\ p[1] = A
        /\ p[k + 1] = B
        /\ \A i \in 1..k : <<p[i], p[i + 1]>> \in g}

\* g.breadth_first_search(A, B): the paths with the fewest hops; which of
\* several the traversal order picks is left open. Empty when unreachable.
breadth_first_search(g, A, B) ==
    LET reach == {k \in 0..(Cardinality(Locations) - 1) : HopPaths(g, A, B, k) # {}}
    IN  IF reach = {} THEN {} ELSE HopPaths(g, A, B, SetMin(reach))

----------------------------------------------------------------------------
(* The helpers of schedule().                                              *)

\* Variant of jobs_from_path: range(len(path) - 2), the last pair is lost.
jobs_from_path_short(path) ==
    IF Len(path) < 3 THEN <<>>
    ELSE [i \in 1..(Len(path) - 2) |-> <<path[i], path[i + 1]>>]

\* jobs_from_path(path)
jobs_from_path(path) ==
    IF Len(path) < 2 THEN <<>>
    ELSE [i \in 1..(Len(path) - 1) |-> <<path[i], path[i + 1]>>]

\* path_from_schedule(jobs, start)
RECURSIVE path_from_schedule_loop(_, _)
path_from_schedule_loop(legs, path) ==
    IF legs = <<>> THEN path
    ELSE LET A == Head(legs)[1]
             B == Head(legs)[2]
         IN  path_from_schedule_loop(
                 Tail(legs),
                 IF A # Last(path) THEN path \o <<A, B>> ELSE Append(path, B))

\* Variant of path_from_schedule: the origin of a job is never appended.
path_from_schedule_destinations(legs, home) ==
    <<home>> \o [i \in 1..Len(legs) |-> legs[i][2]]

path_from_schedule(legs, home) == path_from_schedule_loop(legs, <<home>>)

\* find_perfect_circuit, lines 229-235: the auxiliary graph g holds one edge
\* per distinct (A, B) among the jobs.
auxiliary_graph(legs) == Range(legs)

\* Variant of find_perfect_circuit_raises: the except clause swallows NoPath.
find_perfect_circuit_swallows(net, legs) == FALSE

\* ... and graph.shortest_path(A, B) is asked for each of them; its NoPath
\* failure is not caught.
find_perfect_circuit_raises(net, legs) ==
    \E job \in Range(legs) : shortest_path(net, job[1], job[2]).NoPath

\* Variant of new_starts: the candidates in reverse order.
RECURSIVE new_starts_reversed(_, _)
new_starts_reversed(home, legs) ==
    IF legs = <<>> THEN <<>>
    ELSE IF Head(legs)[1] = home
         THEN new_starts_reversed(home, Tail(legs)) \o <<Head(legs)[2]>>
         ELSE new_starts_reversed(home, Tail(legs))

\* new_starts = [B for A, B in jobs if A == start]
RECURSIVE new_starts(_, _)
new_starts(home, legs) ==
    IF legs = <<>> THEN <<>>
    ELSE IF Head(legs)[1] = home
         THEN <<Head(legs)[2]>> \o new_starts(home, Tail(legs))
         ELSE new_starts(home, Tail(legs))

\* Variant of first_circuit: returns p instead of [start] + p.
RECURSIVE first_circuit_bare(_, _, _)
first_circuit_bare(g, home, candidates) ==
    IF candidates = <<>> THEN {<<>>}
    ELSE LET found == breadth_first_search(g, Head(candidates), home)
         IN  IF found # {} THEN found
             ELSE first_circuit_bare(g, home, Tail(candidates))

\* lines 238-242: the first candidate with a path back to start decides.
RECURSIVE first_circuit(_, _, _)
first_circuit(g, home, candidates) ==
    IF candidates = <<>> THEN {<<>>}
    ELSE LET found == breadth_first_search(g, Head(candidates), home)
         IN  IF found # {} THEN {<<home>> \o p : p \in found}
             ELSE first_circuit(g, home, Tail(candidates))

\* find_perfect_circuit(graph, start, jobs): the paths it can return
\* (<<>> is the empty list of line 242).
find_perfect_circuit(net, home, legs) ==
    first_circuit(auxiliary_graph(legs), home, new_starts(home, legs))

\* itertools.permutations orders the tuples by the positions of the elements
\* in the input: the orderings of the positions idx, those that start with
\* idx[1] first.
RECURSIVE index_permutations(_)
RECURSIVE index_permutations_from(_, _)
index_permutations_from(idx, i) ==
    IF i > Len(idx) THEN <<>>
    ELSE LET sub == index_permutations(RemoveAt(idx, i))
         IN  [k \in 1..Len(sub) |-> <<idx[i]>> \o sub[k]]
                 \o index_permutations_from(idx, i + 1)

index_permutations(idx) ==
    IF idx = <<>> THEN << <<>> >> ELSE index_permutations_from(idx, 1)

LongestJobs == IF MaxLegs > Len(ExampleJobs) THEN MaxLegs ELSE Len(ExampleJobs)

\* <<1, ..., n>>
RECURSIVE positions(_)
positions(n) == IF n = 0 THEN <<>> ELSE Append(positions(n - 1), n)

\* Entry n: the orderings of the positions of a list of n elements.
RECURSIVE permutation_table(_)
permutation_table(n) ==
    IF n = 0 THEN <<>>
    ELSE Append(permutation_table(n - 1), index_permutations(positions(n)))

PermutationTable == permutation_table(LongestJobs)

\* itertools.permutations(jobs_to_plan, len(jobs_to_plan)), in its order
permutations(s) ==
    IF s = <<>> THEN << <<>> >>
    ELSE LET orders == PermutationTable[Len(s)]
         IN  [k \in 1..Len(orders) |-> [i \in 1..Len(s) |-> s[orders[k][i]]] \o <<>>] \o <<>>

\* Variant of improves: <= instead of <.
improves_or_equals(distance, best) == distance <= best

\* line 187: if distance < shortest_distance
improves(distance, best) == distance < best

\* lines 182-189: the loop over the permutations
\* (NoPath: graph.distance_from_path failed on the way.)
RECURSIVE evaluate_loop(_, _, _)
evaluate_loop(scored, i, best) ==
    IF i > Len(scored) THEN best
    ELSE IF scored[i].distance.NoPath THEN [best EXCEPT !.NoPath = TRUE]
    ELSE evaluate_loop(scored, i + 1,
             IF improves(scored[i].distance.d, best.shortest_distance)
             THEN [shortest_path |-> scored[i].path,
                   shortest_distance |-> scored[i].distance.d,
                   perm |-> scored[i].perm, NoPath |-> FALSE]
             ELSE best)

\* lines 185-186 for every permutation, in the order of the loop
scored_permutations(net, home, legs) ==
    LET perms == permutations(legs)
    IN  [k \in 1..Len(perms) |->
            LET path == path_from_schedule(perms[k], home)
            IN  [perm |-> perms[k], path |-> path,
                 distance |-> distance_from_path(net, path)]] \o <<>>

evaluate(net, home, legs) ==
    evaluate_loop(scored_permutations(net, home, legs), 1,
                  [shortest_path |-> <<>>, shortest_distance |-> Inf, perm |-> <<>>,
                   NoPath |-> FALSE])

\* Variant of consume: without the test of line 193.
RECURSIVE consume_unchecked(_, _, _)
consume_unchecked(job_sequence, pool, sched) ==
    IF job_sequence = <<>> THEN [jobs_to_plan |-> pool, new_schedule |-> sched]
    ELSE LET job == Head(job_sequence)
         IN  consume_unchecked(Tail(job_sequence),
                               IF job \in Range(pool) THEN Remove(pool, job) ELSE pool,
                               Append(sched, job))

\* Variant of consume: new_schedule.insert(0, job) instead of append.
RECURSIVE consume_prepending(_, _, _)
consume_prepending(job_sequence, pool, sched) ==
    IF job_sequence = <<>> THEN [jobs_to_plan |-> pool, new_schedule |-> sched]
    ELSE LET job == Head(job_sequence)
         IN  IF job \in Range(pool)
             THEN consume_prepending(Tail(job_sequence), Remove(pool, job),
                                     <<job>> \o sched)
             ELSE consume_prepending(Tail(job_sequence), pool, sched)

\* lines 192-195: remove planned jobs from options
RECURSIVE consume(_, _, _)
consume(job_sequence, pool, sched) ==
    IF job_sequence = <<>> THEN [jobs_to_plan |-> pool, new_schedule |-> sched]
    ELSE LET job == Head(job_sequence)
         IN  IF job \in Range(pool)
             THEN consume(Tail(job_sequence), Remove(pool, job), Append(sched, job))
             ELSE consume(Tail(job_sequence), pool, sched)

----------------------------------------------------------------------------
(* schedule(graph, start, jobs)                                            *)

JobLists ==
    UNION {[1..n -> Legs] : n \in 0..MaxLegs} \cup {ExampleJobs}

\* lines 175-176
Init ==
    /\ graph \in {GraphOf(net) : net \in Networks}
    /\ start \in Locations
    /\ jobs \in JobLists
    /\ jobs_to_plan = jobs
    /\ new_schedule = <<>>
    /\ outcome = "running"
    /\ iters = 0
    /\ branch = "none"
    /\ prev_pool = <<>>
    /\ circuit_path = <<>>
    /\ chosen_perm = <<>>
    /\ shortest_path_v = <<>>
    /\ shortest_distance = Inf
    /\ oracle_called = FALSE

\* The while loop is entered (line 177). The counter is capped one above the
\* length of the input.
Entered ==
    /\ outcome = "running"
    /\ jobs_to_plan # <<>>
    /\ iters <= Len(jobs)

\* lines 178-180, 192-195: an iteration in which a circuit is found
CircuitIteration ==
    /\ Entered
    /\ ~find_perfect_circuit_raises(graph, jobs_to_plan)
    /\ \E found \in find_perfect_circuit(graph, start, jobs_to_plan) :
          /\ found # <<>>
          /\ LET after == consume(jobs_from_path(found), jobs_to_plan, new_schedule)
             IN  /\ jobs_to_plan' = after.jobs_to_plan
                 /\ new_schedule' = after.new_schedule
          /\ circuit_path' = found
    /\ branch' = "circuit"
    /\ prev_pool' = jobs_to_plan
    /\ iters' = iters + 1
    /\ oracle_called' = TRUE
    /\ UNCHANGED <<graph, start, jobs, outcome, chosen_perm, shortest_path_v,
                   shortest_distance>>

\* lines 178, 181-195: an iteration in which no circuit is found. When
\* graph.distance_from_path fails (line 186) the failure leaves schedule().
PermutationIteration ==
    /\ Entered
    /\ ~find_perfect_circuit_raises(graph, jobs_to_plan)
    /\ <<>> \in find_perfect_circuit(graph, start, jobs_to_plan)
    /\ LET best == evaluate(graph, start, jobs_to_plan)
           after == consume(jobs_from_path(best.shortest_path), jobs_to_plan,
                            new_schedule)
       IN  IF best.NoPath
           THEN /\ outcome' = "NoPath"
                /\ UNCHANGED <<jobs_to_plan, new_schedule, iters, branch, prev_pool,
                               circuit_path, chosen_perm, shortest_path_v,
                               shortest_distance>>
           ELSE /\ jobs_to_plan' = after.jobs_to_plan
                /\ new_schedule' = after.new_schedule
                /\ shortest_path_v' = best.shortest_path
                /\ shortest_distance' = best.shortest_distance
                /\ chosen_perm' = best.perm
                /\ circuit_path' = <<>>
                /\ branch' = "permutation"
                /\ prev_pool' = jobs_to_plan
                /\ iters' = iters + 1
                /\ outcome' = outcome
    /\ oracle_called' = TRUE
    /\ UNCHANGED <<graph, start, jobs>>

\* line 234: graph.shortest_path fails inside find_perfect_circuit and the
\* failure leaves schedule()
CircuitNoPath ==
    /\ Entered
    /\ find_perfect_circuit_raises(graph, jobs_to_plan)
    /\ outcome' = "NoPath"
    /\ oracle_called' = TRUE
    /\ UNCHANGED <<graph, start, jobs, jobs_to_plan, new_schedule, iters, branch,
                   prev_pool, circuit_path, chosen_perm, shortest_path_v,
                   shortest_distance>>

\* lines 177, 196: the loop is left and new_schedule is returned
Return ==
    /\ outcome = "running"
    /\ jobs_to_plan = <<>>
    /\ outcome' = "returned"
    /\ UNCHANGED <<graph, start, jobs, jobs_to_plan, new_schedule, iters, branch,
                   prev_pool, circuit_path, chosen_perm, shortest_path_v,
                   shortest_distance, oracle_called>>

Next ==
    \/ CircuitIteration
    \/ PermutationIteration
    \/ CircuitNoPath
    \/ Return

Spec == Init /\ [][Next]_vars

TypeOK ==
    /\ graph.nodes \subseteq Locations
    /\ start \in Locations
    /\ jobs \in Seq(Legs)
    /\ outcome \in {"running", "returned", "NoPath"}
    /\ branch \in {"none", "circuit", "permutation"}
    /\ iters \in Nat

----------------------------------------------------------------------------
(* Vocabulary of the properties.                                           *)

Returned == outcome = "returned"

Count(s, x) == Cardinality({i \in 1..Len(s) : s[i] = x})

\* home or an endpoint of a job is no location of the network
InvalidInput ==
    \/ ~Contains(graph, start)
    \/ \E job \in Range(jobs) : ~Contains(graph, job[1]) \/ ~Contains(graph, job[2])

NoRoute(A, B) == graph.routes[<<A, B>>] >= Inf

\* a pending job has no feasible route
UnroutableLeg == \E job \in Range(jobs_to_plan) : NoRoute(job[1], job[2])

\* a connector of some travel path of the pending jobs has no feasible route:
\* from home to the origin of a first job, or from the destination of a job
\* to the different origin of a job that can follow it
UnroutableConnector ==
    \/ \E i \in 1..Len(jobs_to_plan) :
          start # jobs_to_plan[i][1] /\ NoRoute(start, jobs_to_plan[i][1])
    \/ \E i, j \in 1..Len(jobs_to_plan) :
          /\ i # j
          /\ jobs_to_plan[i][2] # jobs_to_plan[j][1]
          /\ NoRoute(jobs_to_plan[i][2], jobs_to_plan[j][1])

\* the Circuit Finder returns nothing for the pending jobs
NoCircuit == <<>> \in find_perfect_circuit(graph, start, jobs_to_plan)

\* Some step of schedule() can be taken: the return, or an iteration that
\* fails in find_perfect_circuit, finds a circuit or falls back.
CanStep ==
    \/ jobs_to_plan = <<>>
    \/ /\ Entered
       /\ \/ find_perfect_circuit_raises(graph, jobs_to_plan)
          \/ find_perfect_circuit(graph, start, jobs_to_plan) # {}

\* Total distance of an ordering: from `at`, a shortest connector wherever
\* the origin of the next job differs from the last location, then the job.
RECURSIVE TravelDistance(_, _)
TravelDistance(legs, at) ==
    IF legs = <<>> THEN 0
    ELSE Plus(Plus(IF Head(legs)[1] # at THEN graph.routes[<<at, Head(legs)[1]>>] ELSE 0,
                   graph.routes[Head(legs)]),
              TravelDistance(Tail(legs), Head(legs)[2]))

\* The connector pairs of the travel path of an ordering.
RECURSIVE ConnectorPairs(_, _)
ConnectorPairs(legs, at) ==
    IF legs = <<>> THEN {}
    ELSE (IF Head(legs)[1] # at THEN {<<at, Head(legs)[1]>>} ELSE {})
             \cup ConnectorPairs(Tail(legs), Head(legs)[2])

\* The jobs appended to new_schedule by the last completed iteration.
Batch ==
    SubSeq(new_schedule, Len(jobs) - Len(prev_pool) + 1, Len(new_schedule))

\* sub occurs in s in this order (not necessarily contiguously)
RECURSIVE IsSubsequence(_, _)
IsSubsequence(sub, s) ==
    IF sub = <<>> THEN TRUE
    ELSE IF s = <<>> THEN FALSE
    ELSE IF Head(sub) = Head(s) THEN IsSubsequence(Tail(sub), Tail(s))
    ELSE IsSubsequence(sub, Tail(s))

IsPrefix(s, t) == Len(s) <= Len(t) /\ SubSeq(t, 1, Len(s)) = s

IsExample1 ==
    /\ jobs = ExampleJobs
    /\ start = "A"
    /\ graph = GraphOf(UnitTriangle)

----------------------------------------------------------------------------
(* The properties.                                                         *)

\* C1: leg conservation. The schedule that schedule() returns holds exactly
\* the input jobs, as a multiset: none lost, duplicated, merged or invented,
\* also when the input holds the same (origin, destination) more than once.
C1_LegConservation == Returned => BagOfSeq(new_schedule) = BagOfSeq(jobs)

\* a run that returned a schedule for an input with a repeated job
C1_Witness ==
    /\ Returned
    /\ iters >= 1
    /\ \E i, j \in 1..Len(jobs) : i # j /\ jobs[i] = jobs[j]

\* C2: termination bound. Every completed iteration of the while loop removes
\* at least one job from jobs_to_plan, so there are never more than len(jobs)
\* iterations, and a call that has not ended can take its next step (which
\* ends it or completes an iteration).
C2_TerminationBound ==
    /\ iters + Len(jobs_to_plan) <= Len(jobs)
    /\ outcome = "running" => CanStep

\* a run that needed as many iterations as there are jobs
C2_Witness == Returned /\ Len(jobs) >= 2 /\ iters = Len(jobs)

\* C3: input validation. With home or an endpoint of a job outside the
\* network, schedule() fails with InvalidLocation before any work: no method
\* of graph is called, no iteration runs, and nothing is returned.
C3_InvalidLocationFirst ==
    InvalidInput => (~oracle_called /\ iters = 0 /\ outcome = "running")

\* C4: NoPath is fatal. When a pending job has no feasible route, or no
\* circuit is found and a connector of a travel path has none, the iteration
\* ends schedule() in NoPath, with nothing scheduled in it; after NoPath
\* nothing more happens.
C4_NoPathPropagated ==
    [][/\ outcome # "NoPath"
       /\ (outcome = "running" /\ jobs_to_plan # <<>>
             /\ (UnroutableLeg \/ (NoCircuit /\ UnroutableConnector)))
          => (outcome' = "NoPath" /\ new_schedule' = new_schedule)]_vars

\* a run that ended in NoPath because of a connector: every job has a route
C4_Witness ==
    /\ outcome = "NoPath"
    /\ ~UnroutableLeg
    /\ Len(jobs_to_plan) >= 2

\* C5: circuit correctness. A path returned by find_perfect_circuit starts
\* and ends at home, and each of its consecutive pairs is a job pending when
\* it was called.
C5_CircuitCorrect ==
    branch = "circuit" =>
        /\ Len(circuit_path) >= 2
        /\ circuit_path[1] = start
        /\ circuit_path[Len(circuit_path)] = start
        /\ \A i \in 1..(Len(circuit_path) - 1) :
              <<circuit_path[i], circuit_path[i + 1]>> \in Range(prev_pool)

\* a circuit over three jobs
C5_Witness == branch = "circuit" /\ Len(circuit_path) = 4

\* C6: optimality within a batch. The ordering kept by the permutation loop
\* has the least total distance among all orderings of the pending jobs, and
\* is the first such ordering in the order of the enumeration.
C6_Optimal ==
    branch = "permutation" =>
        LET perms == permutations(prev_pool)
            costs == [k \in 1..Len(perms) |-> TravelDistance(perms[k], start)] \o <<>>
        IN  /\ \A k \in 1..Len(perms) : costs[k] >= shortest_distance
            /\ \E k \in 1..Len(perms) :
                  /\ perms[k] = chosen_perm
                  /\ costs[k] = shortest_distance
                  /\ \A j \in 1..(k - 1) : costs[j] > shortest_distance
            /\ shortest_distance < Inf

\* the search mattered: the ordering kept is not the order of the input
C6_Witness ==
    /\ branch = "permutation"
    /\ Len(prev_pool) >= 3
    /\ chosen_perm # prev_pool
    /\ TravelDistance(prev_pool, start) > shortest_distance

\* C7 as stated: in Example 1 the first iteration finds a circuit and that one
\* batch consumes all four jobs.
C7_Example1OneBatch ==
    (IsExample1 /\ iters = 1) => (branch = "circuit" /\ jobs_to_plan = <<>>)

\* C7 as amended: in Example 1 the first iteration finds the circuit A,B,A
\* and consumes (A,B),(B,A); the second finds A,C,A and consumes the rest.
C7_Example1TwoBatches ==
    IsExample1 =>
        /\ iters <= 2
        /\ outcome # "NoPath"
        /\ iters >= 1 => branch = "circuit"
        /\ iters = 1 =>
              /\ circuit_path = <<"A", "B", "A">>
              /\ new_schedule = << <<"A", "B">>, <<"B", "A">> >>
              /\ jobs_to_plan = << <<"A", "C">>, <<"C", "A">> >>
        /\ iters = 2 =>
              /\ circuit_path = <<"A", "C", "A">>
              /\ new_schedule = << <<"A", "B">>, <<"B", "A">>, <<"A", "C">>, <<"C", "A">> >>
              /\ jobs_to_plan = <<>>
        /\ Returned => iters = 2

C7_Witness == IsExample1 /\ Returned

\* C8: the permutation fallback consumes every pending job: an iteration of
\* that branch ends with jobs_to_plan empty, and the only step after it is
\* the return, so the branch runs at most once, as the last iteration.
C8_FallbackConsumesAll ==
    [][/\ (branch' = "permutation" /\ iters' # iters) => jobs_to_plan' = <<>>
       /\ branch = "permutation" => (iters' = iters /\ outcome' = "returned")]_vars

\* a fallback over several jobs after a circuit iteration
C8_Witness ==
    /\ branch = "permutation"
    /\ iters >= 2
    /\ Len(prev_pool) >= 2
    /\ Returned

\* C9 as stated: a batch resolved by the permutation loop is appended in the
\* order of the ordering that was kept.
C9_PermutationOrder == branch = "permutation" => Batch = chosen_perm

\* C9 as amended: the batch holds the pending jobs in the order in which the
\* kept travel path traverses their pairs, a connector pair that is the pair
\* of a pending job counting as that job; it is the kept ordering whenever
\* no connector pair is the pair of a pending job.
C9_TraversalOrder ==
    branch = "permutation" =>
        /\ BagOfSeq(Batch) = BagOfSeq(prev_pool)
        /\ IsSubsequence(Batch, jobs_from_path(shortest_path_v))
        /\ ConnectorPairs(chosen_perm, start) \cap Range(prev_pool) = {}
              => Batch = chosen_perm

\* a batch of several jobs whose travel path has connectors, none of them
\* the pair of a pending job
C9_Witness ==
    /\ branch = "permutation"
    /\ Len(prev_pool) >= 2
    /\ ConnectorPairs(chosen_perm, start) # {}
    /\ ConnectorPairs(chosen_perm, start) \cap Range(prev_pool) = {}

\* C10 as stated: jobs_to_plan and new_schedule partition the input: their
\* multiset union is the input and they have nothing in common.
C10_Partition ==
    /\ BagOfSeq(jobs_to_plan) (+) BagOfSeq(new_schedule) = BagOfSeq(jobs)
    /\ Range(jobs_to_plan) \cap Range(new_schedule) = {}

\* C10 as amended: the multiset union is the input at every point;
\* jobs_to_plan and new_schedule hold the same (origin, destination) only
\* when the input holds it more than once; jobs_to_plan never grows and
\* new_schedule is only ever extended.
C10_PartitionOfInstances ==
    /\ [](/\ BagOfSeq(jobs_to_plan) (+) BagOfSeq(new_schedule) = BagOfSeq(jobs)
          /\ \A job \in Range(jobs_to_plan) \cap Range(new_schedule) :
                Count(jobs, job) >= 2)
    /\ [][/\ Len(jobs_to_plan') <= Len(jobs_to_plan)
          /\ IsPrefix(new_schedule, new_schedule')]_vars

\* between two iterations, with a repeated job on both sides
C10_Witness ==
    /\ outcome = "running"
    /\ iters >= 1
    /\ Range(jobs_to_plan) \cap Range(new_schedule) # {}

====
